---- MODULE Spec2Model ----
(***************************************************************************)
(* Model of the derushing pipeline of src/app/derusher.py: the range       *)
(* merger (merge_overlapping_ranges), the detector (detect_nonsilent: the  *)
(* windows of np.array_split, their RMS test and the grouping of valid     *)
(* windows into ranges), the concatenator, the output path, process_video  *)
(* with its pre-flight check and the orchestrator DerushWorker.run with    *)
(* its temporary files and its two cleanup paths, alone and as two         *)
(* workers side by side.                                                   *)
(*                                                                         *)
(* Times are whole multiples of 100 ms (one analysis window): 0.1 s is 1,  *)
(* min_segment_gap = 0.2 s is 2.  A range is a pair <<start, end>> of such *)
(* numbers.  The detector and the merger compute on the IEEE doubles the   *)
(* code computes, see "doubles" below; in what they return, and everywhere *)
(* else, a double stands for the multiple of 100 ms next to it.            *)
(***************************************************************************)
EXTENDS Integers, Sequences, FiniteSets, TLC

\* ------------------------------------------------------------------ bounds
\* Longest input list given to the merger, and the largest time in it.
MaxLen == 3
MaxTime == 5
\* Most 100 ms windows of an audio buffer, and the longest video (in 100 ms).
MaxWindows == 9
MaxDuration == 10
\* Largest margin and largest minimum segment length of a worker (in 100 ms).
MaxMargin == 1
MaxMinLen == 2
\* Longest segment list given to the concatenator on its own.
MaxSegments == 6
\* The detector on its own: most samples of a buffer, largest window size
\* (samples per 100 ms) and largest margin (in 100 ms).
MaxSamples == 5
MaxWindowSize == 2
MaxDetectMargin == 3
\* Longest input path given to the output path derivation, in tokens.
MaxPathLen == 4
\* Two workers side by side: the names tempfile can draw for a directory or
\* a file, and the most segments one worker extracts.
MaxTempNames == 2
MaxRunSegments == 2

\* ------------------------------------------------------- program constants
\* self.min_segment_gap = 0.2 (seconds), in units of 100 ms.
min_segment_gap == 2
\* Line 150: the error message shows missing_files[:5].
MissingShown == 5

Max(a, b) == IF a >= b THEN a ELSE b
Min(a, b) == IF a <= b THEN a ELSE b

\* ----------------------------------------------------------------- doubles
\* A Python float x next to a multiple g of 100 ms is the pair <<g, d>> with
\* x = g/10 + d * u, u = 1 / (10 * 2^60): d is the (small, whole) deviation
\* of x from g/10.  The doubles in [2^e, 2^(e+1)) are the multiples of
\* 2^(e-52), that is of 5 * 2^(e+9) units u; as 2^60 is 1 modulo 5, <<g, d>>
\* is such a double iff 2^(e+9) divides d and 5 divides g + d.
\* The operations on doubles are functions, so that an operation is computed
\* on the values of its operands.
Double == Int \X Int

\* Quantum is 2^(e+9) for the binade of <<g, d>>, g in 1..79.
Binade[g \in Int] ==
    IF g <= 1 THEN 32 ELSE IF g = 2 THEN 64 ELSE IF g <= 4 THEN 128
    ELSE IF g <= 9 THEN 256 ELSE IF g <= 19 THEN 512
    ELSE IF g <= 39 THEN 1024 ELSE 2048
Quantum[g \in Int, d \in Int] ==
    IF g \in {5, 10, 20, 40} /\ d < 0 THEN Binade[g] \div 2 ELSE Binade[g]

\* The least deviation of a double of quantum q next to g, from 0 up: the
\* doubles next to g are the <<g, Offset[g, q] + n * 5 * q>>, n an integer.
Offset[g \in Int, q \in Int] == q * (CHOOSE k \in 0..4 : ((q * k) + g) % 5 = 0)

\* The double of quantum q nearest to <<g, d>>, which lies r above a double
\* and 5 * q - r below the next one; ties go to the even mantissa.
Nearest[g \in Int, d \in Int, q \in Int, r \in Int] ==
    IF 2 * r < 5 * q THEN <<g, d - r>>
    ELSE IF 2 * r > 5 * q THEN <<g, (d - r) + (5 * q)>>
    ELSE IF (d - r) % (2 * q) = 0 THEN <<g, d - r>>
    ELSE <<g, (d - r) + (5 * q)>>

RoundTo[g \in Int, d \in Int, q \in Int] ==
    Nearest[g, d, q, (d - Offset[g, q]) % (5 * q)]

\* The double nearest to the exact value <<g, d>>.  A result next to 0 comes
\* from subtracting two doubles next to each other and is exact; a negative
\* one is only compared with 0.
Round[g \in Int, d \in Int] ==
    IF g <= 0 THEN <<g, d>> ELSE RoundTo[g, d, Quantum[g, d]]

\* ms / 1000.0 for ms = 100 * g (lines 18 and 20), and len / sample_rate
\* for a buffer of g whole windows: the double nearest to g/10.
FTenth[g \in Int] == Round[g, 0]
\* k * 0.1 (lines 104, 105, 112, 113): the product with the double 0.1.
FTimesTenth[k \in Int] == Round[k, k * FTenth[1][2]]
FAdd[x \in Double, y \in Double] == Round[x[1] + y[1], x[2] + y[2]]
FSub[x \in Double, y \in Double] == Round[x[1] - y[1], x[2] - y[2]]
FLessEq[x \in Double, y \in Double] ==
    x[1] < y[1] \/ (x[1] = y[1] /\ x[2] <= y[2])
FMax[x \in Double, y \in Double] == IF FLessEq[y, x] THEN x ELSE y
\* max(0, x).
FMaxZero[x \in Double] == IF FLessEq[x, <<0, 0>>] THEN <<0, 0>> ELSE x

\* A list of ranges given in multiples of 100 ms as the ranges of the doubles
\* nearest to them, and a list of ranges of doubles as the multiples of
\* 100 ms they stand for.
RECURSIVE Doubles(_)
Doubles(ranges) ==
    IF ranges = <<>> THEN <<>>
    ELSE <<<<FTenth[Head(ranges)[1]], FTenth[Head(ranges)[2]]>>>>
         \o Doubles(Tail(ranges))
RECURSIVE Labels(_)
Labels(ranges) ==
    IF ranges = <<>> THEN <<>>
    ELSE <<<<Head(ranges)[1][1], Head(ranges)[2][1]>>>> \o Labels(Tail(ranges))

\* ------------------------------------------------- merge_overlapping_ranges
\* sorted(ranges, key=lambda x: x[0]): a stable sort on the start alone.
\* InsertByStart puts r after every element whose start is <= r's start.
RECURSIVE InsertByStart(_, _)
InsertByStart(r, s) ==
    IF s = <<>> THEN <<r>>
    ELSE IF FLessEq[Head(s)[1], r[1]]
         THEN <<Head(s)>> \o InsertByStart(r, Tail(s))
         ELSE <<r>> \o s

RECURSIVE SortedByStart(_)
SortedByStart(ranges) ==
    IF ranges = <<>> THEN <<>>
    ELSE InsertByStart(ranges[Len(ranges)],
                       SortedByStart(SubSeq(ranges, 1, Len(ranges) - 1)))

\* Faulty variant of line 64: '<' for '<='.
CloseEnoughStrict(start, current_end) ==
    ~FLessEq[FAdd[current_end, FTenth[min_segment_gap]], start]

\* Line 64: start <= current_end + self.min_segment_gap.
CloseEnough(start, current_end) ==
    FLessEq[start, FAdd[current_end, FTenth[min_segment_gap]]]

\* Faulty variant of line 66: the end of the later range replaces the
\* current end.
ExtendEndOverwrites(current_end, end) == end

\* Line 66: current_end = max(current_end, end).
ExtendEnd(current_end, end) == FMax[current_end, end]

\* The loop of lines 62-70 over the rest of the sorted list; returns
\* <<merged, current_start, current_end>>.
RECURSIVE MergeSweep(_, _, _, _)
MergeSweep(rest, merged, current_start, current_end) ==
    IF rest = <<>> THEN <<merged, current_start, current_end>>
    ELSE LET start == Head(rest)[1]
             end == Head(rest)[2]
         IN  IF CloseEnough(start, current_end)
             THEN MergeSweep(Tail(rest), merged, current_start,
                             ExtendEnd(current_end, end))
             ELSE MergeSweep(Tail(rest),
                             Append(merged, <<current_start, current_end>>),
                             start, end)

\* Faulty variant of merge_overlapping_ranges: line 73 is missing, the last
\* range is never appended.
MergeDropLast(ranges) ==
    IF ranges = <<>> THEN <<>>
    ELSE LET sorted_ranges == SortedByStart(ranges)
         IN  MergeSweep(Tail(sorted_ranges), <<>>,
                        Head(sorted_ranges)[1], Head(sorted_ranges)[2])[1]

merge_overlapping_ranges(ranges) ==
    IF ranges = <<>> THEN <<>>
    ELSE LET sorted_ranges == SortedByStart(ranges)
             swept == MergeSweep(Tail(sorted_ranges), <<>>,
                                 Head(sorted_ranges)[1], Head(sorted_ranges)[2])
         IN  Append(swept[1], <<swept[2], swept[3]>>)

\* ------------------------------------- detect_nonsilent, lines 92 to 118
\* valid_windows is built by enumerate(), so it is in ascending order.
RECURSIVE Ascending(_)
Ascending(S) ==
    IF S = {} THEN <<>>
    ELSE LET m == CHOOSE x \in S : \A y \in S : x <= y
         IN  <<m>> \o Ascending(S \ {m})

\* Faulty variant of lines 106 and 114: no range is too short.
LongEnoughAlways(start_time, end_time, min_len) == TRUE

\* Lines 106 and 114: end_time - start_time >= self.min_silence_len, on the
\* doubles start_time and end_time, min_len in 100 ms.
LongEnough(start_time, end_time, min_len) ==
    FLessEq[FTenth[min_len], FSub[end_time, start_time]]

\* Lines 104 and 113: max(0, (start_i * 0.1) - self.margin), a double.
StartTime(start_i, mrg) == FMaxZero[FSub[FTimesTenth[start_i], FTenth[mrg]]]
\* Lines 105 and 112: (end_i + 1) * 0.1 + self.margin, a double.
EndTime(end_i, mrg) == FAdd[FTimesTenth[end_i + 1], FTenth[mrg]]

\* Line 112: min(end_time, len(audio_array) / sample_rate) for a buffer of
\* `samples` samples, window_size of them in 100 ms.  A quotient that is not
\* a multiple of 100 ms is not needed: the buffers analysed have whole
\* windows only, or the margin is 0 and the quotient is the larger one.
ClampToBuffer(end_time, samples, window_size) ==
    IF end_time[1] * window_size < samples THEN end_time
    ELSE LET quotient == FTenth[samples \div window_size]
         IN  IF FLessEq[end_time, quotient] THEN end_time ELSE quotient

\* The loop of lines 100-109 over valid_windows[1:]; returns
\* <<ranges, start_i, prev_i>>.
RECURSIVE GroupWindows(_, _, _, _, _, _)
GroupWindows(rest, ranges, start_i, prev_i, mrg, min_len) ==
    IF rest = <<>> THEN <<ranges, start_i, prev_i>>
    ELSE LET w == Head(rest)
         IN  IF w - prev_i > 1
             THEN LET end_i == prev_i
                      start_time == StartTime(start_i, mrg)
                      end_time == EndTime(end_i, mrg)
                  IN  GroupWindows(Tail(rest),
                                   IF LongEnough(start_time, end_time, min_len)
                                   THEN Append(ranges,
                                               <<start_time, end_time>>)
                                   ELSE ranges,
                                   w, w, mrg, min_len)
             ELSE GroupWindows(Tail(rest), ranges, start_i, w, mrg, min_len)

\* Lines 92-118: from the valid windows to the merged ranges, for a buffer
\* of `samples` samples, window_size of them in 100 ms.
RangesOfValidWindows(valid_windows, samples, window_size, mrg, min_len) ==
    IF valid_windows = <<>> THEN <<>>
    ELSE LET g == GroupWindows(Tail(valid_windows), <<>>,
                               Head(valid_windows), Head(valid_windows),
                               mrg, min_len)
             end_time == ClampToBuffer(EndTime(g[3], mrg), samples,
                                       window_size)
             start_time == StartTime(g[2], mrg)
             ranges == IF LongEnough(start_time, end_time, min_len)
                       THEN Append(g[1], <<start_time, end_time>>)
                       ELSE g[1]
         IN  Labels(merge_overlapping_ranges(ranges))

\* ----------------------------------------------- detect_nonsilent, samples
\* The sample values of the buffers analysed here (silence, speech, a loud
\* peak) and the two thresholds as linear amplitudes: min_threshold and
\* max_threshold of lines 86-87 once converted from dB.
Levels == {0, 2, 9}
Thresholds == [min |-> 1, max |-> 4]

\* np.array_split(ary, nsec): nsec sections that cover all of ary; with
\* each, extras = divmod(len(ary), nsec) the first `extras` sections have
\* each + 1 elements, the others `each`.  Offset of section k (from 0).
SectionStart(k, total, nsec) ==
    (k * (total \div nsec)) + Min(k, total % nsec)

\* Line 80: np.array_split(audio_array, len(audio_array) // window_size).
array_split(ary, nsec) ==
    [k \in 1..nsec |->
        SubSeq(ary, SectionStart(k - 1, Len(ary), nsec) + 1,
               SectionStart(k, Len(ary), nsec))]

RECURSIVE SumSquares(_)
SumSquares(window) ==
    IF window = <<>> THEN 0
    ELSE (Head(window) * Head(window)) + SumSquares(Tail(window))

\* Lines 83 and 90: min_threshold < sqrt(mean(window**2)) < max_threshold,
\* compared as squares, which is exact.
ValidWindow(window, thr) ==
    /\ thr.min * thr.min * Len(window) < SumSquares(window)
    /\ SumSquares(window) < thr.max * thr.max * Len(window)

\* detect_nonsilent (lines 76-118) on the samples audio_array with
\* window_size = int(0.1 * sample_rate): "ValueError" when array_split is
\* asked for 0 sections, else the merged ranges.
detect_nonsilent(audio_array, window_size, thr, mrg, min_len) ==
    LET nsec == Len(audio_array) \div window_size
    IN  IF nsec = 0 THEN "ValueError"
        ELSE LET windows == array_split(audio_array, nsec)
                 valid_windows ==
                     {k \in 0..(nsec - 1) : ValidWindow(windows[k + 1], thr)}
             IN  RangesOfValidWindows(Ascending(valid_windows),
                                      Len(audio_array), window_size,
                                      mrg, min_len)

\* ------------------------------------------------------ the output path
\* A path is a sequence of tokens: "/" separates directories, "." starts an
\* extension.
PathTokens == {"/", ".", "v", "mp4", "_derushed"}

LastIndex(path, token) ==
    LET S == {k \in 1..Len(path) : path[k] = token}
    IN  IF S = {} THEN 0 ELSE CHOOSE k \in S : \A j \in S : j <= k

\* os.path.splitext: the extension starts at the last dot of the last
\* component, unless only dots come before it in that component.
splitext(path) ==
    LET sepIndex == LastIndex(path, "/")
        dotIndex == LastIndex(path, ".")
    IN  IF /\ dotIndex > sepIndex
           /\ \E k \in (sepIndex + 1)..(dotIndex - 1) : path[k] # "."
        THEN [root |-> SubSeq(path, 1, dotIndex - 1),
              ext |-> SubSeq(path, dotIndex, Len(path))]
        ELSE [root |-> path, ext |-> <<>>]

\* Faulty variant of line 238: the marker goes before the input's extension.
DerushedKeepsExtension(path) ==
    splitext(path).root \o <<"_derushed">> \o splitext(path).ext

\* Line 238: os.path.splitext(self.video_path)[0] + '_derushed.mp4'.
DerushedPath(path) == splitext(path).root \o <<"_derushed", ".", "mp4">>

\* os.path.dirname: what comes before the last separator.
DirName(path) == SubSeq(path, 1, LastIndex(path, "/"))

\* ------------------------------------------------------------------- state
VARIABLES
    margin,            \* self.margin, in 100 ms
    min_silence_len,   \* self.min_silence_len, in 100 ms
    pc,                \* the position of run()
    temp_dir,          \* self.temp_dir: "None" or the workspace's name
    temp_audio_path,   \* the local of run(): "None" or the .wav file's name
    video_duration,    \* video.duration, in 100 ms (0 before the video is loaded)
    analyzed,          \* detect_nonsilent has returned
    nonsilent_ranges,  \* what it returned
    i,                 \* the index of the extraction loop
    segment_files,     \* the list built by the loop
    error,             \* the exception caught at line 259 (NoError before)
    raised,            \* the exception run() raised to its caller
    returned,          \* the value run() returned
    progress,          \* the values given to update_progress, in order
    fs_workspace,      \* the workspace directory exists
    fs_ws_files,       \* the files in it
    fs_audio,          \* the intermediate .wav file exists
    fs_output,         \* the output file exists
    extract_calls,     \* the calls of extract_segment_ffmpeg, in order
    concat_calls,      \* the segment lists given to concat_segments_ffmpeg
    ffmpeg_runs,       \* the transcoder subprocesses started, in order
    manifest,          \* the lines of segments.txt
    audio_removals,    \* how often os.remove(temp_audio_path) was called
    ws_cleanups,       \* how often cleanup_temp_directory was called
    os_failures,       \* the deletions the operating system refused
    warnings,          \* what logger.warning was called about
    m_pc,              \* merger harness: "input", "merged", "remerged"
    m_ranges,          \* merger harness: the input list
    m_out,             \* merger harness: merge_overlapping_ranges(m_ranges)
    m_again,           \* merger harness: merge_overlapping_ranges(m_out)
    ffmpeg_check,      \* process_video: "pending" or what `ffmpeg -version` did
    missing_named,     \* the paths named in the FileNotFoundError of line 150
    d_pc,              \* detector harness: "input", "detected", "raised"
    d_audio,           \* detector harness: the samples of audio_array
    d_window_size,     \* detector harness: int(0.1 * sample_rate)
    d_out,             \* detector harness: detect_nonsilent(d_audio)
    d_full,            \* detector harness: the same on the full windows only
    p_pc,              \* path harness: "input", "derived"
    p_path,            \* path harness: self.video_path, a sequence of tokens
    p_out,             \* path harness: the output path of line 238
    t_pc,              \* two workers: the position of each run()
    t_input,           \* two workers: the video_path of each
    t_dir,             \* two workers: the temp_dir of each
    t_audio,           \* two workers: the temp_audio_path of each
    t_seg,             \* two workers: the segment files each has written
    t_owner,           \* two workers: who created each existing path
    t_collisions       \* two workers: accesses to a path the other one owns

settingVars == <<margin, min_silence_len, ffmpeg_check>>
runVars == <<pc, temp_dir, temp_audio_path, video_duration, analyzed,
             nonsilent_ranges, i, segment_files, error, raised, returned,
             progress>>
fsVars == <<fs_workspace, fs_ws_files, fs_audio, fs_output>>
logVars == <<extract_calls, concat_calls, ffmpeg_runs, manifest,
             audio_removals, ws_cleanups, os_failures, warnings>>
mergeVars == <<m_pc, m_ranges, m_out, m_again>>
detectVars == <<d_pc, d_audio, d_window_size, d_out, d_full>>
pathVars == <<p_pc, p_path, p_out>>
twoVars == <<t_pc, t_input, t_dir, t_audio, t_seg, t_owner, t_collisions>>
harnessVars == <<mergeVars, detectVars, pathVars, twoVars>>
vars == <<settingVars, runVars, fsVars, logVars, missing_named, harnessVars>>

\* ------------------------------------------------------------- exceptions
\* An exception: its Python type, what it is about, and whether a pipeline
\* step or a cleanup call raised it.
NoError == [type |-> "None", what |-> "none", origin |-> "none"]
StepError(type, what) == [type |-> type, what |-> what, origin |-> "step"]
CleanupError(type, what) == [type |-> type, what |-> what, origin |-> "cleanup"]
\* Line 207.
NoSegmentsError == StepError("ValueError", "no_segments")
\* Line 231.
ExtractionError == StepError("RuntimeError", "extraction")
\* Line 242.
ConcatenationError == StepError("RuntimeError", "concatenation")
\* Line 299, raised by process_video.
PreflightError == StepError("RuntimeError", "ffmpeg_missing")
\* Line 145.
EmptyListError == StepError("ValueError", "empty_segment_list")
\* Line 150.
MissingSegmentsError == StepError("FileNotFoundError", "missing_segments")
\* What VideoFileClip raises on a file it cannot read (line 187).
BadInputError == StepError("OSError", "bad_input")

\* ----------------------------------------------------------------- helpers
\* update_progress (lines 29-32) with a callback set: the value is delivered.
update_progress(log, value) == Append(log, value)

\* Faulty variant of line 223: one constant name for every index.
SegmentPathFixed(idx) == <<"segment", 0>>

\* Line 223: os.path.join(temp_dir, f'segment_{i:04d}.mp4').
SegmentPath(idx) == <<"segment", idx>>

\* Line 153: os.path.join(self.temp_dir, 'segments.txt').
ListFile == <<"segments.txt">>

\* Line 156: f"file '{segment}'\n".
ManifestLine(segment) == <<"file", segment>>

\* Line 238: os.path.splitext(self.video_path)[0] + '_derushed.mp4'.
OutputPath == "video_derushed.mp4"

\* Faulty variant of line 206: the test is missing.
NoSegmentsIgnored(ranges) == FALSE

\* Line 206: not nonsilent_ranges.
NoSegments(ranges) == ranges = <<>>

\* Faulty variant of line 217: the loop is left after the first range.
LoopExhaustedEarly(idx, n) == idx >= 1

\* The for loop of line 217 has no range left.
LoopExhausted(idx, n) == idx >= n

\* Faulty variant of lines 234-235: the index is not advanced by one.
LoopProgressFromZero(idx, n) == 30 + ((50 * idx) \div n)

\* Line 234-235: int(30 + ((i + 1) / len(nonsilent_ranges)) * 50).
LoopProgress(idx, n) == 30 + ((50 * (idx + 1)) \div n)

\* Faulty variant of cleanup_temp_directory: the files are removed, os.rmdir
\* is forgotten.
CleanupKeepsDirectory(dir, exists, files, listdir_ok, stuck, rmdir_ok) ==
    [raised |-> FALSE, workspace |-> exists, files |-> files \cap stuck,
     warned |-> IF files \cap stuck # {} THEN {"ws_file"} ELSE {},
     failed |-> IF files \cap stuck # {} THEN {"remove_ws_file"} ELSE {}]

\* cleanup_temp_directory (lines 39-50) on a workspace holding `files`:
\* os.listdir (line 42) is outside every try and may raise; each os.remove
\* that fails (the files in `stuck`) and a failing os.rmdir are logged.
\* os.rmdir fails on a directory that is not empty.
cleanup_temp_directory(dir, exists, files, listdir_ok, stuck, rmdir_ok) ==
    IF dir # "None" /\ exists
    THEN IF ~listdir_ok
         THEN [raised |-> TRUE, workspace |-> exists, files |-> files,
               warned |-> {}, failed |-> {"listdir"}]
         ELSE LET left == files \cap stuck
                  removed == left = {} /\ rmdir_ok
              IN  [raised |-> FALSE, workspace |-> ~removed, files |-> left,
                   warned |-> (IF left # {} THEN {"ws_file"} ELSE {})
                              \cup (IF removed THEN {} ELSE {"ws_dir"}),
                   failed |-> (IF left # {} THEN {"remove_ws_file"} ELSE {})
                              \cup (IF removed THEN {} ELSE {"rmdir"})]
    ELSE [raised |-> FALSE, workspace |-> exists, files |-> files,
          warned |-> {}, failed |-> {}]

\* ------------------------------------------------- concat_segments_ffmpeg
\* What a call of concat_segments_ffmpeg does when nothing was checked yet
\* or a check failed: no manifest, no subprocess.
ConcatUntouched ==
    [error |-> NoError, named |-> <<>>, written |-> FALSE, lines |-> <<>>,
     started |-> FALSE, success |-> FALSE]

\* Lines 154-172: the manifest is written, then the transcoder runs unless
\* its binary is missing; success is exit code 0.
ConcatRun(segments, outcome) ==
    IF outcome = "manifest_fails"
    THEN [ConcatUntouched EXCEPT !.error = StepError("OSError", "manifest")]
    ELSE [error |-> NoError, named |-> <<>>, written |-> TRUE,
          lines |-> [k \in 1..Len(segments) |->
                        ManifestLine(segments[k])],
          started |-> outcome # "not_found", success |-> outcome = "ok"]

\* Faulty variant of concat_segments_ffmpeg: the empty list is not refused.
ConcatAcceptsEmpty(segments, files, outcome) ==
    LET missing_files == SelectSeq(segments, LAMBDA f : f \notin files)
    IN  IF missing_files # <<>>
        THEN [ConcatUntouched EXCEPT
                 !.error = MissingSegmentsError,
                 !.named = SubSeq(missing_files, 1,
                                  Min(MissingShown, Len(missing_files)))]
        ELSE ConcatRun(segments, outcome)

\* Faulty variant of concat_segments_ffmpeg: the manifest is written before
\* the segment files are looked for.
ConcatManifestFirst(segments, files, outcome) ==
    LET missing_files == SelectSeq(segments, LAMBDA f : f \notin files)
        ran == ConcatRun(segments, outcome)
    IN  IF segments = <<>>
        THEN [ConcatUntouched EXCEPT !.error = EmptyListError]
        ELSE IF missing_files # <<>> /\ ran.written
        THEN [ran EXCEPT
                 !.error = MissingSegmentsError,
                 !.named = SubSeq(missing_files, 1,
                                  Min(MissingShown, Len(missing_files))),
                 !.started = FALSE, !.success = FALSE]
        ELSE ran

\* concat_segments_ffmpeg (lines 142-175) on the list `segments` with the
\* files `files` in the workspace: the error it raises (NoError if none), the
\* paths its message names, whether segments.txt was written and with which
\* lines, whether a transcoder subprocess was started, and its return value.
concat_segments_ffmpeg(segments, files, outcome) ==
    LET missing_files == SelectSeq(segments, LAMBDA f : f \notin files)
    IN  IF segments = <<>>
        THEN [ConcatUntouched EXCEPT !.error = EmptyListError]
        ELSE IF missing_files # <<>>
        THEN [ConcatUntouched EXCEPT
                 !.error = MissingSegmentsError,
                 !.named = SubSeq(missing_files, 1,
                                  Min(MissingShown, Len(missing_files)))]
        ELSE ConcatRun(segments, outcome)

\* -------------------------------------------------------------------- Init
\* The state when process_video is called: nothing has run yet.  The worker
\* it builds starts as DerushWorker.__init__ (lines 15-23) leaves it.
FreshRun ==
    /\ missing_named = <<>>
    /\ temp_audio_path = "None"
    /\ video_duration = 0
    /\ analyzed = FALSE
    /\ nonsilent_ranges = <<>>
    /\ i = 0
    /\ error = NoError
    /\ raised = NoError
    /\ returned = "None"
    /\ progress = <<>>
    /\ fs_audio = FALSE
    /\ fs_output = FALSE
    /\ extract_calls = <<>>
    /\ concat_calls = <<>>
    /\ ffmpeg_runs = <<>>
    /\ manifest = <<>>
    /\ audio_removals = 0
    /\ ws_cleanups = 0
    /\ os_failures = {}
    /\ warnings = {}

InitRun ==
    /\ pc = "process_video"
    /\ ffmpeg_check = "pending"
    /\ temp_dir = "None"
    /\ segment_files = <<>>
    /\ fs_workspace = FALSE
    /\ fs_ws_files = {}
    /\ FreshRun

MergeIdle ==
    /\ m_pc = "idle"
    /\ m_ranges = <<>>
    /\ m_out = <<>>
    /\ m_again = <<>>

DetectIdle ==
    /\ d_pc = "idle"
    /\ d_audio = <<>>
    /\ d_window_size = 1
    /\ d_out = <<>>
    /\ d_full = <<>>

PathIdle ==
    /\ p_pc = "idle"
    /\ p_path = <<>>
    /\ p_out = <<>>

TwoIdle ==
    /\ t_pc = <<>>
    /\ t_input = <<>>
    /\ t_dir = <<>>
    /\ t_audio = <<>>
    /\ t_seg = <<>>
    /\ t_owner = <<>>
    /\ t_collisions = {}

Init ==
    /\ margin \in 0..MaxMargin
    /\ min_silence_len \in 0..MaxMinLen
    /\ InitRun
    /\ MergeIdle
    /\ DetectIdle
    /\ PathIdle
    /\ TwoIdle

\* ------------------------------------------------------------ process_video
\* Faulty variant of check_ffmpeg_installed: the exit code is not looked at.
FfmpegAlwaysInstalled(outcome) == TRUE

\* check_ffmpeg_installed (lines 270-280): `ffmpeg -version` ran and exited
\* with 0; a missing binary (FileNotFoundError) gives False.  Another error
\* of subprocess.run (the binary may not be executed) is not caught there.
check_ffmpeg_installed(outcome) == outcome = "exit_0"

\* process_video (lines 297-314) up to the call of worker.run(): the
\* pre-flight check, then the worker and its callback.
ProcessVideo ==
    /\ pc = "process_video"
    /\ \E outcome \in {"exit_0", "exit_nonzero", "not_found", "os_error"} :
        /\ ffmpeg_check' = outcome
        /\ IF outcome = "os_error"
           THEN /\ raised' = StepError("OSError", "ffmpeg_version")
                /\ pc' = "failed"
           ELSE IF check_ffmpeg_installed(outcome)
           THEN /\ pc' = "create_temp_directory"
                /\ raised' = raised
           ELSE /\ raised' = PreflightError
                /\ pc' = "failed"
    /\ UNCHANGED <<margin, min_silence_len, temp_dir, temp_audio_path,
                   video_duration, analyzed, nonsilent_ranges, i,
                   segment_files, error, returned, progress, fsVars, logVars,
                   missing_named, harnessVars>>

\* ------------------------------------------------------------ run(), steps
\* Lines 182-184.
CreateTempDirectory ==
    /\ pc = "create_temp_directory"
    /\ \E ok \in BOOLEAN :
        IF ok
        THEN /\ temp_dir' = "derusher_tmp"
             /\ fs_workspace' = TRUE
             /\ progress' = update_progress(progress, 5)
             /\ pc' = "load_video"
             /\ error' = error
        ELSE /\ error' = StepError("OSError", "mkdtemp")
             /\ pc' = "except"
             /\ UNCHANGED <<temp_dir, fs_workspace, progress>>
    /\ UNCHANGED <<settingVars, temp_audio_path, video_duration, analyzed,
                   nonsilent_ranges, i, segment_files, raised, returned,
                   fs_ws_files, fs_audio, fs_output, logVars, missing_named,
                   harnessVars>>

\* Lines 186-188: VideoFileClip(self.video_path) raises on a bad input.
LoadVideo ==
    /\ pc = "load_video"
    /\ \/ \E d \in 1..MaxDuration :
            /\ video_duration' = d
            /\ progress' = update_progress(progress, 10)
            /\ pc' = "extract_audio"
            /\ error' = error
       \/ /\ error' = BadInputError
          /\ pc' = "except"
          /\ UNCHANGED <<video_duration, progress>>
    /\ UNCHANGED <<settingVars, temp_dir, temp_audio_path, analyzed,
                   nonsilent_ranges, i, segment_files, raised, returned,
                   fsVars, logVars, missing_named,
                   harnessVars>>

\* Lines 190-197: the .wav file exists from line 191 on, written or not.
ExtractAudio ==
    /\ pc = "extract_audio"
    /\ \/ /\ error' = StepError("OSError", "tempfile")
          /\ pc' = "except"
          /\ UNCHANGED <<temp_audio_path, fs_audio, progress>>
       \/ /\ temp_audio_path' = "tmp.wav"
          /\ fs_audio' = TRUE
          /\ error' = StepError("Exception", "write_audiofile")
          /\ pc' = "except"
          /\ UNCHANGED progress
       \/ /\ temp_audio_path' = "tmp.wav"
          /\ fs_audio' = TRUE
          /\ progress' = update_progress(progress, 25)
          /\ pc' = "analyze"
          /\ error' = error
    /\ UNCHANGED <<settingVars, temp_dir, video_duration, analyzed,
                   nonsilent_ranges, i, segment_files, raised, returned,
                   fs_workspace, fs_ws_files, fs_output, logVars, missing_named,
                   harnessVars>>

\* Lines 199-216.  n is len(audio_array) // window_size, valid is the set of
\* windows with min_threshold < rms < max_threshold; np.array_split raises
\* ValueError for n = 0 (line 80).  The buffer lasts n windows.
Analyze ==
    /\ pc = "analyze"
    /\ \/ /\ error' = StepError("RuntimeError", "sf_read")
          /\ pc' = "except"
          /\ UNCHANGED <<analyzed, nonsilent_ranges, progress>>
       \/ \E n \in 0..MaxWindows : \E valid \in SUBSET (0..(n - 1)) :
            IF n = 0
            THEN /\ error' = StepError("ValueError", "array_split")
                 /\ pc' = "except"
                 /\ UNCHANGED <<analyzed, nonsilent_ranges, progress>>
            ELSE LET found == RangesOfValidWindows(Ascending(valid), n, 1,
                                                   margin, min_silence_len)
                 IN  /\ analyzed' = TRUE
                     /\ nonsilent_ranges' = found
                     /\ IF NoSegments(found)
                        THEN /\ error' = NoSegmentsError
                             /\ pc' = "except"
                             /\ UNCHANGED progress
                        ELSE /\ progress' = update_progress(progress, 30)
                             /\ pc' = "extract"
                             /\ error' = error
    /\ UNCHANGED <<settingVars, temp_dir, temp_audio_path, video_duration, i,
                   segment_files, raised, returned, fsVars, logVars, missing_named,
                   harnessVars>>

\* Lines 217-235: one iteration of the extraction loop.  The transcoder
\* (extract_segment_ffmpeg, lines 120-140) exits 0 and has written the file,
\* exits non-zero (having written a partial file or none), or is not found
\* (no subprocess is started); the last two return False.
ExtractSegment ==
    /\ pc = "extract"
    /\ ~LoopExhausted(i, Len(nonsilent_ranges))
    /\ LET n == Len(nonsilent_ranges)
           start == Max(0, nonsilent_ranges[i + 1][1])
           end == Min(nonsilent_ranges[i + 1][2], video_duration)
           segment_file == SegmentPath(i)
       IN  \E outcome \in {"ok", "nonzero_exit", "nonzero_exit_partial_file",
                           "not_found"} :
            /\ segment_files' = Append(segment_files, segment_file)
            /\ extract_calls' =
                  Append(extract_calls,
                         [index |-> i, range |-> nonsilent_ranges[i + 1],
                          output |-> segment_file, start |-> start,
                          end |-> end, success |-> outcome = "ok"])
            /\ ffmpeg_runs' = IF outcome = "not_found" THEN ffmpeg_runs
                              ELSE Append(ffmpeg_runs, "extract")
            /\ fs_ws_files' =
                  IF outcome \in {"ok", "nonzero_exit_partial_file"}
                  THEN fs_ws_files \cup {segment_file} ELSE fs_ws_files
            /\ IF outcome = "ok"
               THEN /\ progress' = update_progress(progress, LoopProgress(i, n))
                    /\ i' = i + 1
                    /\ UNCHANGED <<pc, error>>
               ELSE /\ error' = ExtractionError
                    /\ pc' = "except"
                    /\ UNCHANGED <<progress, i>>
    /\ UNCHANGED <<settingVars, temp_dir, temp_audio_path, video_duration,
                   analyzed, nonsilent_ranges, raised, returned, fs_workspace,
                   fs_audio, fs_output, concat_calls, manifest, audio_removals,
                   ws_cleanups, os_failures, warnings, missing_named,
                   harnessVars>>

\* Lines 237-244 with concat_segments_ffmpeg (lines 142-175): the two
\* precondition checks, the manifest, then the transcoder.
Concatenate ==
    /\ pc = "extract"
    /\ LoopExhausted(i, Len(nonsilent_ranges))
    /\ concat_calls' = Append(concat_calls, segment_files)
    /\ \E outcome \in {"manifest_fails", "ok", "nonzero_exit", "not_found"} :
        LET c == concat_segments_ffmpeg(segment_files, fs_ws_files, outcome)
        IN  /\ missing_named' = c.named
            /\ manifest' = IF c.written THEN c.lines ELSE manifest
            /\ fs_ws_files' = IF c.written THEN fs_ws_files \cup {ListFile}
                              ELSE fs_ws_files
            /\ ffmpeg_runs' = IF c.started THEN Append(ffmpeg_runs, "concat")
                              ELSE ffmpeg_runs
            /\ IF c.error # NoError
               THEN /\ error' = c.error
                    /\ pc' = "except"
                    /\ UNCHANGED <<fs_output, progress>>
               ELSE IF c.success
               THEN /\ fs_output' = TRUE
                    /\ progress' = update_progress(progress, 95)
                    /\ pc' = "cleanup_audio"
                    /\ error' = error
               ELSE /\ error' = ConcatenationError
                    /\ pc' = "except"
                    /\ UNCHANGED <<fs_output, progress>>
    /\ UNCHANGED <<settingVars, temp_dir, temp_audio_path, video_duration,
                   analyzed, nonsilent_ranges, i, segment_files, raised,
                   returned, fs_workspace, fs_audio, extract_calls,
                   audio_removals, ws_cleanups, os_failures, warnings,
                   harnessVars>>

\* Lines 248-252: a failing os.remove is logged (bare except).
CleanupAudio ==
    /\ pc = "cleanup_audio"
    /\ pc' = "cleanup_workspace"
    /\ IF temp_audio_path # "None" /\ fs_audio
       THEN /\ audio_removals' = audio_removals + 1
            /\ \E ok \in BOOLEAN :
                 IF ok
                 THEN fs_audio' = FALSE /\ UNCHANGED <<warnings, os_failures>>
                 ELSE /\ warnings' = warnings \cup {"audio"}
                      /\ os_failures' = os_failures \cup {"remove_audio"}
                      /\ UNCHANGED fs_audio
       ELSE UNCHANGED <<audio_removals, fs_audio, warnings, os_failures>>
    /\ UNCHANGED <<settingVars, temp_dir, temp_audio_path, video_duration,
                   analyzed, nonsilent_ranges, i, segment_files, error, raised,
                   returned, progress, fs_workspace, fs_ws_files, fs_output,
                   extract_calls, concat_calls, ffmpeg_runs, manifest,
                   ws_cleanups, missing_named,
                   harnessVars>>

\* Line 253: cleanup_temp_directory() inside the try of run(): what it raises
\* is caught at line 259.
CleanupWorkspace ==
    /\ pc = "cleanup_workspace"
    /\ \E listdir_ok \in BOOLEAN, stuck \in SUBSET fs_ws_files,
          rmdir_ok \in BOOLEAN :
         LET c == cleanup_temp_directory(temp_dir, fs_workspace, fs_ws_files,
                                         listdir_ok, stuck, rmdir_ok)
         IN  /\ ws_cleanups' = ws_cleanups + 1
             /\ fs_workspace' = c.workspace
             /\ fs_ws_files' = c.files
             /\ warnings' = warnings \cup c.warned
             /\ os_failures' = os_failures \cup c.failed
             /\ IF c.raised
                THEN error' = CleanupError("OSError", "listdir") /\ pc' = "except"
                ELSE error' = error /\ pc' = "report"
    /\ UNCHANGED <<settingVars, temp_dir, temp_audio_path, video_duration,
                   analyzed, nonsilent_ranges, i, segment_files, raised,
                   returned, progress, fs_audio, fs_output, extract_calls,
                   concat_calls, ffmpeg_runs, manifest, audio_removals,
                   missing_named,
                   harnessVars>>

\* Lines 255-257.
ReportDone ==
    /\ pc = "report"
    /\ progress' = update_progress(progress, 100)
    /\ returned' = OutputPath
    /\ pc' = "done"
    /\ UNCHANGED <<settingVars, temp_dir, temp_audio_path, video_duration,
                   analyzed, nonsilent_ranges, i, segment_files, error, raised,
                   fsVars, logVars, missing_named,
                   harnessVars>>

\* Lines 259-268: the handler.  os.remove(temp_audio_path) and
\* cleanup_temp_directory() share one try: when the first raises, the second
\* is not called.  Then the caught exception is raised again.
ExceptHandler ==
    /\ pc = "except"
    /\ \E audio_ok \in BOOLEAN, listdir_ok \in BOOLEAN,
          stuck \in SUBSET fs_ws_files, rmdir_ok \in BOOLEAN :
         LET try_audio == temp_audio_path # "None" /\ fs_audio
             audio_raises == try_audio /\ ~audio_ok
             c == IF audio_raises
                  THEN [raised |-> FALSE, workspace |-> fs_workspace,
                        files |-> fs_ws_files, warned |-> {}, failed |-> {}]
                  ELSE cleanup_temp_directory(temp_dir, fs_workspace,
                                              fs_ws_files, listdir_ok, stuck,
                                              rmdir_ok)
         IN  /\ audio_removals' = audio_removals + (IF try_audio THEN 1 ELSE 0)
             /\ fs_audio' = IF try_audio /\ audio_ok THEN FALSE ELSE fs_audio
             /\ ws_cleanups' = ws_cleanups + (IF audio_raises THEN 0 ELSE 1)
             /\ fs_workspace' = c.workspace
             /\ fs_ws_files' = c.files
             /\ warnings' = warnings \cup c.warned
                    \cup (IF audio_raises \/ c.raised
                          THEN {"cleanup_error"} ELSE {})
             /\ os_failures' = os_failures \cup c.failed
                    \cup (IF audio_raises THEN {"remove_audio"} ELSE {})
    /\ raised' = error
    /\ pc' = "failed"
    /\ UNCHANGED <<settingVars, temp_dir, temp_audio_path, video_duration,
                   analyzed, nonsilent_ranges, i, segment_files, error,
                   returned, progress, fs_output, extract_calls, concat_calls,
                   ffmpeg_runs, manifest, missing_named,
                   harnessVars>>

Next ==
    \/ ProcessVideo
    \/ CreateTempDirectory
    \/ LoadVideo
    \/ ExtractAudio
    \/ Analyze
    \/ ExtractSegment
    \/ Concatenate
    \/ CleanupAudio
    \/ CleanupWorkspace
    \/ ReportDone
    \/ ExceptHandler

Spec == Init /\ [][Next]_vars

\* ------------------------------------------------- the merger on its own
\* Every list of at most MaxLen ranges <<start, end>> with
\* 0 <= start < end <= MaxTime, in any order.
Ranges == {r \in (0..MaxTime) \X (0..MaxTime) : r[1] < r[2]}
RangeLists == UNION {[1..n -> Ranges] : n \in 0..MaxLen}

InitMerge ==
    /\ margin = 0
    /\ min_silence_len = 0
    /\ InitRun
    /\ m_pc = "input"
    /\ m_ranges \in RangeLists
    /\ m_out = <<>>
    /\ m_again = <<>>
    /\ DetectIdle
    /\ PathIdle
    /\ TwoIdle

\* merge_overlapping_ranges(ranges), on the doubles nearest to the times of
\* m_ranges.
MergeOnce ==
    /\ m_pc = "input"
    /\ m_out' = Labels(merge_overlapping_ranges(Doubles(m_ranges)))
    /\ m_pc' = "merged"
    /\ UNCHANGED <<settingVars, runVars, fsVars, logVars, missing_named,
                   detectVars, pathVars, twoVars, m_ranges, m_again>>

\* merge_overlapping_ranges on its own output.
MergeAgain ==
    /\ m_pc = "merged"
    /\ m_again' = Labels(merge_overlapping_ranges(Doubles(m_out)))
    /\ m_pc' = "remerged"
    /\ UNCHANGED <<settingVars, runVars, fsVars, logVars, missing_named,
                   detectVars, pathVars, twoVars, m_ranges, m_out>>

NextMerge == MergeOnce \/ MergeAgain

SpecMerge == InitMerge /\ [][NextMerge]_vars

\* ------------------------------------------- the concatenator on its own
\* concat_segments_ffmpeg called on a worker with a workspace, for every list
\* segment_0000 .. segment_(n-1) with n <= MaxSegments and every set of these
\* files present in the workspace.
SegmentLists == {[k \in 1..n |-> SegmentPath(k - 1)] : n \in 0..MaxSegments}

InitConcat ==
    /\ margin = 0
    /\ min_silence_len = 0
    /\ ffmpeg_check = "exit_0"
    /\ pc = "call_concat"
    /\ temp_dir = "derusher_tmp"
    /\ fs_workspace = TRUE
    /\ segment_files \in SegmentLists
    /\ fs_ws_files \in SUBSET {SegmentPath(k) : k \in 0..(MaxSegments - 1)}
    /\ FreshRun
    /\ MergeIdle
    /\ DetectIdle
    /\ PathIdle
    /\ TwoIdle

\* self.concat_segments_ffmpeg(segment_files, output_path), returning or
\* raising to its caller.
CallConcat ==
    /\ pc = "call_concat"
    /\ concat_calls' = Append(concat_calls, segment_files)
    /\ \E outcome \in {"manifest_fails", "ok", "nonzero_exit", "not_found"} :
        LET c == concat_segments_ffmpeg(segment_files, fs_ws_files, outcome)
        IN  /\ missing_named' = c.named
            /\ manifest' = IF c.written THEN c.lines ELSE manifest
            /\ fs_ws_files' = IF c.written THEN fs_ws_files \cup {ListFile}
                              ELSE fs_ws_files
            /\ ffmpeg_runs' = IF c.started THEN Append(ffmpeg_runs, "concat")
                              ELSE ffmpeg_runs
            /\ fs_output' = c.success
            /\ IF c.error # NoError
               THEN /\ raised' = c.error
                    /\ pc' = "concat_raised"
                    /\ returned' = returned
               ELSE /\ raised' = raised
                    /\ pc' = "concat_returned"
                    /\ returned' = IF c.success THEN "True" ELSE "False"
    /\ UNCHANGED <<settingVars, temp_dir, temp_audio_path, video_duration,
                   analyzed, nonsilent_ranges, i, segment_files, error,
                   progress, fs_workspace, fs_audio, extract_calls,
                   audio_removals, ws_cleanups, os_failures, warnings,
                   harnessVars>>

NextConcat == CallConcat

SpecConcat == InitConcat /\ [][NextConcat]_vars

\* ---------------------------------------------- the detector on its own
\* detect_nonsilent called on every buffer of at most MaxSamples samples,
\* with every window size, margin and minimum length in the bounds.
Buffers == UNION {[1..n -> Levels] : n \in 0..MaxSamples}

InitDetect ==
    /\ margin \in 0..MaxDetectMargin
    /\ min_silence_len \in 0..MaxMinLen
    /\ InitRun
    /\ MergeIdle
    /\ d_pc = "input"
    /\ d_audio \in Buffers
    /\ d_window_size \in 1..MaxWindowSize
    /\ (margin = 0 \/ Len(d_audio) % d_window_size = 0)
    /\ d_out = <<>>
    /\ d_full = <<>>
    /\ PathIdle
    /\ TwoIdle

\* The first len // window_size full windows of the buffer.
FullWindowsOnly(audio_array, window_size) ==
    SubSeq(audio_array, 1,
           (Len(audio_array) \div window_size) * window_size)

\* self.detect_nonsilent(audio_array, sample_rate), and the same call on the
\* buffer cut after its last full window.
Detect ==
    /\ d_pc = "input"
    /\ LET out == detect_nonsilent(d_audio, d_window_size, Thresholds,
                                   margin, min_silence_len)
           full == detect_nonsilent(
                       FullWindowsOnly(d_audio, d_window_size),
                       d_window_size, Thresholds, margin, min_silence_len)
       IN  IF out = "ValueError"
           THEN /\ d_pc' = "raised"
                /\ UNCHANGED <<d_out, d_full>>
           ELSE /\ d_pc' = "detected"
                /\ d_out' = out
                /\ d_full' = full
    /\ UNCHANGED <<settingVars, runVars, fsVars, logVars, missing_named,
                   mergeVars, d_audio, d_window_size, pathVars, twoVars>>

NextDetect == Detect

SpecDetect == InitDetect /\ [][NextDetect]_vars

\* ------------------------------------------ the output path on its own
\* Line 238 for every input path of at most MaxPathLen tokens, on workers of
\* every setting.
InputPaths == UNION {[1..n -> PathTokens] : n \in 0..MaxPathLen}

InitPath ==
    /\ margin \in 0..MaxMargin
    /\ min_silence_len \in 0..MaxMinLen
    /\ InitRun
    /\ MergeIdle
    /\ DetectIdle
    /\ p_pc = "input"
    /\ p_path \in InputPaths
    /\ p_out = <<>>
    /\ TwoIdle

DeriveOutputPath ==
    /\ p_pc = "input"
    /\ p_out' = DerushedPath(p_path)
    /\ p_pc' = "derived"
    /\ UNCHANGED <<settingVars, runVars, fsVars, logVars, missing_named,
                   mergeVars, detectVars, p_path, twoVars>>

NextPath == DeriveOutputPath

SpecPath == InitPath /\ [][NextPath]_vars

\* ------------------------------------------------ two workers side by side
\* Two calls of run() whose steps interleave, on the same filesystem.  A
\* workspace or an audio file is known by the name tempfile drew for it (0
\* is None), the segment files and the manifest by their workspace, the
\* output file by its path.  t_owner records which worker created each
\* directory and file; an access by one worker to a path the other worker
\* created, while that worker is still running, is added to t_collisions.
Runs == {1, 2}
RunInputs == {<<"v", ".", "mp4">>, <<"v", ".", "avi">>, <<"w", ".", "mp4">>}
Other(r) == CHOOSE o \in Runs : o # r

\* Faulty variant of tempfile's naming: a name in use may be drawn again.
AnyName(owners) == DOMAIN owners

\* tempfile.mkdtemp (line 36) and tempfile.NamedTemporaryFile (line 191)
\* create what did not exist; their random names are taken to be drawn once.
FreshNames(owners) == {k \in DOMAIN owners : owners[k] = 0}

\* The collision, if any, of worker r accessing a path created by `owner`.
Collision(r, kind, owner) ==
    IF owner \in Runs \ {r} /\ t_pc[owner] \notin {"done", "failed"}
    THEN {[by |-> r, kind |-> kind, of |-> owner]}
    ELSE {}

InitTwo ==
    /\ margin = 0
    /\ min_silence_len = 0
    /\ InitRun
    /\ MergeIdle
    /\ DetectIdle
    /\ PathIdle
    /\ t_pc = [r \in Runs |-> "create_temp_directory"]
    /\ t_input \in [Runs -> RunInputs]
    /\ t_dir = [r \in Runs |-> 0]
    /\ t_audio = [r \in Runs |-> 0]
    /\ t_seg = [r \in Runs |-> 0]
    /\ t_owner = [dirs |-> [k \in 1..MaxTempNames |-> 0],
                  wavs |-> [k \in 1..MaxTempNames |-> 0],
                  outs |-> [o \in {DerushedPath(q) : q \in RunInputs} |-> 0]]
    /\ t_collisions = {}

TwoFixed == <<settingVars, runVars, fsVars, logVars, missing_named, mergeVars,
              detectVars, pathVars, t_input>>

\* Line 36: self.temp_dir = tempfile.mkdtemp(prefix='derusher_').
TwoCreateTempDirectory(r) ==
    /\ t_pc[r] = "create_temp_directory"
    /\ \E d \in FreshNames(t_owner.dirs) :
        /\ t_dir' = [t_dir EXCEPT ![r] = d]
        /\ t_collisions' = t_collisions
                               \cup Collision(r, "workspace", t_owner.dirs[d])
        /\ t_owner' = [t_owner EXCEPT !.dirs[d] = r]
    /\ t_pc' = [t_pc EXCEPT ![r] = "extract_audio"]
    /\ UNCHANGED <<TwoFixed, t_audio, t_seg>>

\* Lines 191-196: the .wav file is created under a new name and written.
TwoExtractAudio(r) ==
    /\ t_pc[r] = "extract_audio"
    /\ \E a \in FreshNames(t_owner.wavs) :
        /\ t_audio' = [t_audio EXCEPT ![r] = a]
        /\ t_collisions' = t_collisions
                               \cup Collision(r, "audio", t_owner.wavs[a])
        /\ t_owner' = [t_owner EXCEPT !.wavs[a] = r]
    /\ t_pc' = [t_pc EXCEPT ![r] = "extract"]
    /\ UNCHANGED <<TwoFixed, t_dir, t_seg>>

\* Lines 223-228: the next segment file is written into self.temp_dir.
TwoExtractSegment(r) ==
    /\ t_pc[r] = "extract"
    /\ t_seg[r] < MaxRunSegments
    /\ t_seg' = [t_seg EXCEPT ![r] = @ + 1]
    /\ t_collisions' = t_collisions
                           \cup Collision(r, "segment", t_owner.dirs[t_dir[r]])
    /\ UNCHANGED <<TwoFixed, t_pc, t_dir, t_audio, t_owner>>

\* Lines 238-239 with lines 153-172: segments.txt is written into
\* self.temp_dir and the transcoder writes the output path; it may fail
\* after it has started to write.
TwoConcatenate(r) ==
    /\ t_pc[r] = "extract"
    /\ t_seg[r] >= 1
    /\ t_collisions' =
           t_collisions
               \cup Collision(r, "manifest", t_owner.dirs[t_dir[r]])
               \cup Collision(r, "output",
                              t_owner.outs[DerushedPath(t_input[r])])
    /\ t_owner' = [t_owner EXCEPT !.outs[DerushedPath(t_input[r])] = r]
    /\ \E ok \in BOOLEAN :
        t_pc' = [t_pc EXCEPT ![r] = IF ok THEN "cleanup_audio" ELSE "except"]
    /\ UNCHANGED <<TwoFixed, t_dir, t_audio, t_seg>>

\* A step of lines 183-235 raises: mkdtemp, the loading of the video, the
\* audio extraction, the analysis or an extraction.
TwoStepFails(r) ==
    /\ t_pc[r] \in {"create_temp_directory", "extract_audio", "extract"}
    /\ t_pc' = [t_pc EXCEPT ![r] = "except"]
    /\ UNCHANGED <<TwoFixed, t_dir, t_audio, t_seg, t_owner, t_collisions>>

\* Lines 248-252: os.remove(temp_audio_path).
TwoCleanupAudio(r) ==
    /\ t_pc[r] = "cleanup_audio"
    /\ t_collisions' = t_collisions
                           \cup Collision(r, "audio", t_owner.wavs[t_audio[r]])
    /\ t_pc' = [t_pc EXCEPT ![r] = "cleanup_workspace"]
    /\ UNCHANGED <<TwoFixed, t_dir, t_audio, t_seg, t_owner>>

\* Lines 253-257: cleanup_temp_directory, which may raise at os.listdir.
TwoCleanupWorkspace(r) ==
    /\ t_pc[r] = "cleanup_workspace"
    /\ t_collisions' = t_collisions
                           \cup Collision(r, "workspace",
                                          t_owner.dirs[t_dir[r]])
    /\ \E listdir_ok \in BOOLEAN :
        t_pc' = [t_pc EXCEPT ![r] = IF listdir_ok THEN "done" ELSE "except"]
    /\ UNCHANGED <<TwoFixed, t_dir, t_audio, t_seg, t_owner>>

\* Lines 259-268: the handler removes the audio file and the workspace it
\* knows of, then raises.
TwoExceptHandler(r) ==
    /\ t_pc[r] = "except"
    /\ t_collisions' =
           t_collisions
               \cup (IF t_audio[r] # 0
                     THEN Collision(r, "audio", t_owner.wavs[t_audio[r]])
                     ELSE {})
               \cup (IF t_dir[r] # 0
                     THEN Collision(r, "workspace", t_owner.dirs[t_dir[r]])
                     ELSE {})
    /\ t_pc' = [t_pc EXCEPT ![r] = "failed"]
    /\ UNCHANGED <<TwoFixed, t_dir, t_audio, t_seg, t_owner>>

NextTwo ==
    \E r \in Runs :
        \/ TwoCreateTempDirectory(r)
        \/ TwoExtractAudio(r)
        \/ TwoExtractSegment(r)
        \/ TwoConcatenate(r)
        \/ TwoStepFails(r)
        \/ TwoCleanupAudio(r)
        \/ TwoCleanupWorkspace(r)
        \/ TwoExceptHandler(r)

SpecTwo == InitTwo /\ [][NextTwo]_vars

\* ================================================================= claims
Reported(value) == \E k \in 1..Len(progress) : progress[k] = value
\* The deletions inside the workspace that the operating system refused.
WorkspaceRefusals == os_failures \cap {"listdir", "remove_ws_file", "rmdir"}

\* C1: on every failing run that had created its workspace, both cleanup
\* actions were attempted before the failure reached the caller: the removal
\* of the intermediate audio file (if it was created) and
\* cleanup_temp_directory; neither is skipped because the other failed.
C1_BothCleanupsAttempted ==
    (pc = "failed" /\ temp_dir # "None") =>
        /\ ws_cleanups >= 1
        /\ (temp_audio_path # "None" => audio_removals >= 1)

\* C2: the error run() raises is always the failure of the pipeline step
\* that failed, never one of a cleanup call, and a run whose concatenation
\* succeeded (95 was reported) does not fail.
C2_OriginalErrorSurfaced ==
    /\ (pc = "failed" => raised.origin = "step")
    /\ (Reported(95) => pc \notin {"except", "failed"})

\* C3: when detect_nonsilent returned no range, run() fails with the "no
\* segments detected" error and neither extract_segment_ffmpeg nor
\* concat_segments_ffmpeg is called, and no transcoder subprocess is started.
C3_NoSegmentsNoTranscoder ==
    (analyzed /\ nonsilent_ranges = <<>>) =>
        /\ pc \in {"except", "failed"}
        /\ error = NoSegmentsError
        /\ (pc = "failed" => raised = NoSegmentsError)
        /\ returned = "None"
        /\ extract_calls = <<>>
        /\ concat_calls = <<>>
        /\ ffmpeg_runs = <<>>

C3_Witness ==
    /\ pc = "failed"
    /\ analyzed
    /\ nonsilent_ranges = <<>>
    /\ raised = NoSegmentsError

\* C4: when the extraction of the k-th of n ranges fails, run() has called the
\* extractor exactly k times (the first k-1 succeeded), never calls the
\* concatenator, deletes the workspace with the segment files written so far
\* (unless the operating system refuses a deletion in it) and raises the
\* extraction error.
C4_ExtractionFailureAborts ==
    (pc = "failed" /\ error = ExtractionError) =>
        LET k == Len(extract_calls)
        IN  /\ k \in 1..Len(nonsilent_ranges)
            /\ \A j \in 1..k : extract_calls[j].success <=> (j < k)
            /\ concat_calls = <<>>
            /\ raised = ExtractionError
            /\ ws_cleanups >= 1
            /\ (WorkspaceRefusals = {} => ~fs_workspace /\ fs_ws_files = {})

\* C5: when 100 is about to be reported, has been reported, or the output
\* path has been returned, the removal of the intermediate audio file and of
\* the workspace has been attempted, and both are gone unless the operating
\* system refused a deletion.
C5_CleanupBeforeDone ==
    (pc = "report" \/ Reported(100) \/ returned # "None") =>
        /\ audio_removals >= 1
        /\ ws_cleanups >= 1
        /\ ("remove_audio" \notin os_failures => ~fs_audio)
        /\ (WorkspaceRefusals = {} => ~fs_workspace /\ fs_ws_files = {})

C5_Witness ==
    /\ pc = "done"
    /\ Reported(100)
    /\ returned = OutputPath
    /\ Len(extract_calls) >= 2
    /\ manifest # <<>>
    /\ ~fs_audio
    /\ ~fs_workspace
    /\ fs_ws_files = {}

\* C6: the steps of a run follow the fixed linear order workspace creation,
\* audio extraction, analysis, segment extractions, concatenation, done: every
\* step moves forward (only the extraction loop repeats, with the next index),
\* a finished run takes no further step, the extractor is called only after
\* the analysis returned, the concatenator only after every extraction
\* succeeded, and a run ends either done (path returned) or failed (error
\* raised), never both.
StepRank(p) ==
    CASE p = "process_video" -> -1
      [] p = "create_temp_directory" -> 0
      [] p = "load_video" -> 1
      [] p = "extract_audio" -> 2
      [] p = "analyze" -> 3
      [] p = "extract" -> 4
      [] p = "cleanup_audio" -> 5
      [] p = "cleanup_workspace" -> 6
      [] p = "report" -> 7
      [] p = "except" -> 8
      [] p = "done" -> 9
      [] p = "failed" -> 9

C6_StateOrder ==
    /\ (temp_audio_path # "None" => temp_dir # "None" /\ Reported(10))
    /\ (analyzed => Reported(25) /\ temp_audio_path # "None")
    /\ (extract_calls # <<>> => analyzed /\ Reported(30))
    /\ (concat_calls # <<>> =>
            /\ Len(extract_calls) = Len(nonsilent_ranges)
            /\ \A j \in 1..Len(extract_calls) : extract_calls[j].success)
    /\ Len(concat_calls) <= 1
    /\ (pc = "done" <=> returned # "None")
    /\ (pc = "failed" <=> raised # NoError)
    /\ (pc = "done" => Reported(95) /\ concat_calls # <<>>)

C6_StepOrder ==
    /\ pc \notin {"done", "failed"}
    /\ StepRank(pc') >= StepRank(pc)
    /\ (StepRank(pc') = StepRank(pc) =>
            pc = "extract" /\ i' = i + 1
            /\ Len(extract_calls') = Len(extract_calls) + 1)
    /\ (pc' \notin {pc, "except"} =>
            \/ StepRank(pc') = StepRank(pc) + 1
            \/ pc = "report" /\ pc' = "done"
            \/ pc = "except" /\ pc' = "failed"
            \/ pc = "process_video" /\ pc' = "failed")

\* C6: in every reachable state the order of the steps shows in what has
\* happened so far (C6_StateOrder), and every step of a run moves forward in
\* the fixed linear order (C6_StepOrder).
C6_LinearOrder == [](C6_StateOrder) /\ [][C6_StepOrder]_vars

C6_Witness ==
    /\ pc = "done"
    /\ Len(extract_calls) = 3
    /\ Len(concat_calls) = 1
    /\ progress[Len(progress)] = 100

\* C7: on a successful run with n merged ranges the extractor was called
\* exactly n times, once per range, in ascending range order, each call
\* writing the path of its index, all paths distinct; the concatenator was
\* called once with these n paths in index order and the manifest lists them
\* in that order.
C7_ExactlyOncePerRange ==
    pc = "done" =>
        LET n == Len(nonsilent_ranges)
        IN  /\ n >= 1
            /\ Len(extract_calls) = n
            /\ \A j \in 1..n :
                  /\ extract_calls[j].index = j - 1
                  /\ extract_calls[j].range = nonsilent_ranges[j]
                  /\ extract_calls[j].output = <<"segment", j - 1>>
                  /\ extract_calls[j].success
            /\ \A j, k \in 1..n :
                  j < k => /\ extract_calls[j].output # extract_calls[k].output
                           /\ extract_calls[j].range[1] < extract_calls[k].range[1]
            /\ concat_calls = << [j \in 1..n |-> extract_calls[j].output] >>
            /\ manifest = [j \in 1..n |-> <<"file", extract_calls[j].output>>]
            /\ ffmpeg_runs = [j \in 1..(n + 1) |->
                                 IF j <= n THEN "extract" ELSE "concat"]

C7_Witness ==
    /\ pc = "done"
    /\ Len(nonsilent_ranges) = 3
    /\ Len(extract_calls) = 3
    /\ Len(manifest) = 3

\* C8: the output of merge_overlapping_ranges is sorted ascending by start,
\* pairwise disjoint, and consecutive ranges satisfy
\* next.start > current.end + min_segment_gap, whatever the order of the input.
C8_MergedSortedDisjoint ==
    m_pc \in {"merged", "remerged"} =>
        /\ \A k \in 1..(Len(m_out) - 1) :
              /\ m_out[k][1] < m_out[k + 1][1]
              /\ m_out[k + 1][1] > m_out[k][2] + min_segment_gap
        /\ \A j, k \in 1..Len(m_out) :
              j < k => m_out[j][2] <= m_out[k][1]

C8_Witness ==
    /\ m_pc = "merged"
    /\ Len(m_ranges) = 3
    /\ m_ranges[1][1] > m_ranges[2][1]
    /\ m_ranges[2][2] > m_ranges[3][1]
    /\ Len(m_out) = 2

\* C9: merge_overlapping_ranges is idempotent: merging its own output gives
\* the same sequence.
C9_MergeIdempotent == m_pc = "remerged" => m_again = m_out

C9_Witness ==
    /\ m_pc = "remerged"
    /\ Len(m_ranges) = 3
    /\ Len(m_out) = 2
    /\ m_again = m_out
    /\ m_out # m_ranges

\* Some output range covers both input ranges a and b.
CoveredTogether(a, b) ==
    \E k \in 1..Len(m_out) :
        /\ m_out[k][1] <= a[1] /\ a[2] <= m_out[k][2]
        /\ m_out[k][1] <= b[1] /\ b[2] <= m_out[k][2]

\* C10 as stated: for any two input ranges A1, A2 with
\* A2.start - A1.end <= min_segment_gap, one output range covers both.
C10_AnyTwoCloseRangesJoined ==
    m_pc \in {"merged", "remerged"} =>
        \A a, b \in 1..Len(m_ranges) :
            m_ranges[b][1] - m_ranges[a][2] <= min_segment_gap
                => CoveredTogether(m_ranges[a], m_ranges[b])

\* C10 amended: for any two input ranges A1, A2 with A1.start <= A2.start
\* and A2.start <= A1.end + min_segment_gap, one output range covers both.
C10_CloseRangesInOrderJoined ==
    m_pc \in {"merged", "remerged"} =>
        \A a, b \in 1..Len(m_ranges) :
            (/\ m_ranges[a][1] <= m_ranges[b][1]
             /\ m_ranges[b][1] <= m_ranges[a][2] + min_segment_gap)
                => CoveredTogether(m_ranges[a], m_ranges[b])

\* Two bursts separated by a silence of exactly min_segment_gap, given in
\* reverse order, joined into one range.
C10_Witness ==
    /\ m_pc = "merged"
    /\ Len(m_ranges) = 2
    /\ m_ranges[2][1] < m_ranges[1][1]
    /\ m_ranges[1][1] = m_ranges[2][2] + min_segment_gap
    /\ m_out = << <<m_ranges[2][1], m_ranges[1][2]>> >>

ConcatEnded == pc \in {"concat_raised", "concat_returned"}
\* The listed segment files that are not in the workspace, in list order.
MissingOfCall == SelectSeq(segment_files, LAMBDA f : f \notin fs_ws_files)

\* C13: concat_segments_ffmpeg called with an empty list raises the
\* ValueError of line 145 at once: no manifest is written and no transcoder
\* subprocess is started.
C13_EmptyListRefused ==
    (ConcatEnded /\ segment_files = <<>>) =>
        /\ pc = "concat_raised"
        /\ raised = EmptyListError
        /\ raised.type = "ValueError"
        /\ manifest = <<>>
        /\ ListFile \notin fs_ws_files
        /\ ffmpeg_runs = <<>>
        /\ ~fs_output

C13_Witness ==
    /\ pc = "concat_raised"
    /\ segment_files = <<>>
    /\ raised = EmptyListError
    /\ concat_calls = <<(<<>>)>>

\* The failures the caller is to tell apart, and the kind of each: no active
\* range, empty segment list, transcoder failed or unavailable, bad input.
NamedFailures ==
    {NoSegmentsError, EmptyListError, ExtractionError, ConcatenationError,
     PreflightError, BadInputError}
FailureKind(e) ==
    CASE e = NoSegmentsError -> "no_active_ranges"
      [] e = EmptyListError -> "empty_segment_list"
      [] e \in {ExtractionError, ConcatenationError, PreflightError} ->
             "transcoder"
      [] e = BadInputError -> "bad_input"

\* C14: the type of the exception a failed call raises tells the kind of the
\* failure: no other of the named failures of a different kind has the same
\* exception type.
C14_KindsDistinctByType ==
    (pc = "failed" /\ raised \in NamedFailures) =>
        \A e \in NamedFailures :
            e.type = raised.type => FailureKind(e) = FailureKind(raised)

\* C15: concat_segments_ffmpeg called with a list of which at least one file
\* is missing raises the FileNotFoundError of line 150, whose message names
\* the first missing paths in list order, five at most, and neither writes
\* the manifest nor starts a subprocess; called with a list whose files all
\* exist, the manifest it writes has one line per segment, in list order.
C15_MissingFilesRefused ==
    /\ (ConcatEnded /\ MissingOfCall # <<>>) =>
            /\ pc = "concat_raised"
            /\ raised = MissingSegmentsError
            /\ raised.type = "FileNotFoundError"
            /\ Len(missing_named) = Min(MissingShown, Len(MissingOfCall))
            /\ \A k \in 1..Len(missing_named) :
                   missing_named[k] = MissingOfCall[k]
            /\ manifest = <<>>
            /\ ListFile \notin fs_ws_files
            /\ ffmpeg_runs = <<>>
    /\ (ConcatEnded /\ segment_files # <<>> /\ MissingOfCall = <<>>
            /\ ListFile \in fs_ws_files) =>
            /\ Len(manifest) = Len(segment_files)
            /\ \A k \in 1..Len(segment_files) :
                   manifest[k] = ManifestLine(segment_files[k])
    /\ (pc = "concat_returned" =>
            MissingOfCall = <<>> /\ ListFile \in fs_ws_files)

C15_Witness ==
    /\ pc = "concat_raised"
    /\ Len(MissingOfCall) = MissingShown + 1
    /\ Len(missing_named) = MissingShown
    /\ raised = MissingSegmentsError

\* C16: when `ffmpeg -version` fails or the binary is missing, process_video
\* raises its RuntimeError and nothing else has happened: no workspace, no
\* temporary file, no progress value, no pipeline step (the same when the
\* check itself raises); and a run that is at or past the creation of its
\* workspace had a successful check before.
C16_PreflightFirst ==
    /\ (ffmpeg_check \in {"exit_nonzero", "not_found"} =>
            raised = PreflightError)
    /\ (ffmpeg_check \notin {"pending", "exit_0"} =>
            /\ pc = "failed"
            /\ raised # NoError
            /\ temp_dir = "None"
            /\ temp_audio_path = "None"
            /\ ~fs_workspace /\ fs_ws_files = {} /\ ~fs_audio /\ ~fs_output
            /\ progress = <<>>
            /\ video_duration = 0 /\ ~analyzed
            /\ extract_calls = <<>> /\ concat_calls = <<>>
            /\ ffmpeg_runs = <<>>)
    /\ (pc = "process_video" <=> ffmpeg_check = "pending")
    /\ ((pc = "create_temp_directory" \/ temp_dir # "None" \/ fs_workspace
             \/ progress # <<>> \/ error # NoError) =>
            ffmpeg_check = "exit_0")

C16_Witness ==
    /\ pc = "failed"
    /\ ffmpeg_check = "not_found"
    /\ raised = PreflightError
    /\ temp_dir = "None"

\* The progress values of a complete run with n segments.
ExpectedProgress(n) ==
    <<5, 10, 25, 30>> \o [k \in 1..n |-> 30 + ((50 * k) \div n)]
        \o <<95, 100>>
IsPrefix(p, q) == Len(p) <= Len(q) /\ \A k \in 1..Len(p) : p[k] = q[k]

\* C17: the values given to the progress callback are integers in 0..100
\* that never decrease; they are 5, 10, 25, 30, then for the i-th of n
\* segments 30 + floor(50 * (i + 1) / n), each in 30..80 and the last one 80,
\* then 95 and 100 (a failing run delivers a prefix of this), and 100 is
\* delivered only by a run that returns the output path.
C17_ProgressSequence ==
    /\ \A k \in 1..Len(progress) : progress[k] \in 0..100
    /\ \A k \in 1..(Len(progress) - 1) : progress[k] <= progress[k + 1]
    /\ IF Reported(30)
       THEN /\ nonsilent_ranges # <<>>
            /\ IsPrefix(progress, ExpectedProgress(Len(nonsilent_ranges)))
       ELSE IsPrefix(progress, <<5, 10, 25>>)
    /\ \A k \in 1..i : /\ Len(progress) >= 4 + k
                        /\ progress[4 + k] \in 30..80
    /\ (Reported(95) => progress[Len(progress) - (IF Reported(100) THEN 2 ELSE 1)] = 80)
    /\ (Reported(100) => pc = "done" /\ returned = OutputPath)
    /\ (pc = "done" =>
            progress = ExpectedProgress(Len(nonsilent_ranges)))

C17_Witness ==
    /\ pc = "done"
    /\ returned = OutputPath
    /\ progress = <<5, 10, 25, 30, 46, 63, 80, 95, 100>>

\* C11: every range detect_nonsilent returns is not empty and lies inside
\* the buffer: 0 <= start < end <= len(audio_array) / sample_rate, for the
\* range of every run of valid windows and after the merge.
C11_RangesWithinBuffer ==
    d_pc = "detected" =>
        \A k \in 1..Len(d_out) :
            /\ 0 <= d_out[k][1]
            /\ d_out[k][1] < d_out[k][2]
            /\ d_out[k][2] * d_window_size <= Len(d_audio)

\* C19: the output path is the input path with "_derushed" put before the
\* input's own extension, in the input's directory, and differs from the
\* input path.
C19_MarkerBeforeExtension ==
    p_pc = "derived" =>
        /\ p_out = splitext(p_path).root \o <<"_derushed">>
                       \o splitext(p_path).ext
        /\ DirName(p_out) = DirName(p_path)
        /\ p_out # p_path

\* C19, as the code has it: the output path is the input path with its
\* extension (as os.path.splitext finds it, possibly none) replaced by
\* "_derushed.mp4"; it is in the input's directory, differs from the input
\* path, and has the marker before the input's own extension exactly when
\* that extension is ".mp4".
C19_ExtensionReplaced ==
    p_pc = "derived" =>
        /\ p_out = splitext(p_path).root \o <<"_derushed", ".", "mp4">>
        /\ splitext(p_path).root \o splitext(p_path).ext = p_path
        /\ DirName(p_out) = DirName(p_path)
        /\ p_out # p_path
        /\ (p_out = splitext(p_path).root \o <<"_derushed">>
                        \o splitext(p_path).ext
               <=> splitext(p_path).ext = <<".", "mp4">>)

C19_Witness ==
    /\ p_pc = "derived"
    /\ p_path = <<"v", "/", "v", ".">>
    /\ p_out = <<"v", "/", "v", "_derushed", ".", "mp4">>

\* C20: detect_nonsilent looks at windows of exactly int(0.1 * sample_rate)
\* samples and at nothing after the last full window: it returns for a
\* buffer what it returns for the buffer cut after its last full window.
C20_TailIgnored ==
    d_pc = "detected" => d_out = d_full

\* Both workers are between the start and the end of run().
BothRunning == \A r \in Runs : t_pc[r] \notin {"done", "failed"}

\* C18: two runs that execute at the same time never have the same
\* workspace or the same audio file, and neither ever accesses a path the
\* other one created: workspace, segment files, manifest, audio file and
\* output file are each touched by one run only, also when both runs have
\* the same input file.
C18_NoSharedPath ==
    /\ t_collisions = {}
    /\ \A r \in Runs :
           /\ (t_dir[r] # 0 /\ t_dir[Other(r)] # 0 => t_dir[r] # t_dir[Other(r)])
           /\ (t_audio[r] # 0 /\ t_audio[Other(r)] # 0 =>
                   t_audio[r] # t_audio[Other(r)])

\* C18, as the code has it: two runs that execute at the same time never
\* have the same workspace or the same audio file, and neither accesses the
\* workspace, a segment file, the manifest or the audio file of the other;
\* the only path both access is the output path, and only when their input
\* paths give the same output path (the same input, or inputs that differ in
\* the extension only).
C18_OnlyOutputShared ==
    /\ \A c \in t_collisions :
           /\ c.kind = "output"
           /\ DerushedPath(t_input[c.by]) = DerushedPath(t_input[c.of])
    /\ \A r \in Runs :
           /\ (t_dir[r] # 0 /\ t_dir[Other(r)] # 0 => t_dir[r] # t_dir[Other(r)])
           /\ (t_audio[r] # 0 /\ t_audio[Other(r)] # 0 =>
                   t_audio[r] # t_audio[Other(r)])
           /\ (t_dir[r] # 0 => t_owner.dirs[t_dir[r]] = r)
           /\ (t_audio[r] # 0 => t_owner.wavs[t_audio[r]] = r)

C18_Witness ==
    /\ BothRunning
    /\ t_input[1] # t_input[2]
    /\ t_collisions = {[by |-> 2, kind |-> "output", of |-> 1]}
    /\ t_dir[1] # 0 /\ t_dir[2] # 0
    /\ t_audio[1] # 0 /\ t_audio[2] # 0
    /\ t_seg[1] = MaxRunSegments

\* The windows of the analysed buffer and the valid ones among them (lines
\* 79-90), and the maximal runs <<s, e>> of consecutive valid windows.
DetectWindows == Len(d_audio) \div d_window_size
DetectValid ==
    {k \in 0..(DetectWindows - 1) :
        ValidWindow(array_split(d_audio, DetectWindows)[k + 1], Thresholds)}
ValidRuns ==
    {r \in DetectValid \X DetectValid :
        /\ r[1] <= r[2]
        /\ \A k \in r[1]..r[2] : k \in DetectValid
        /\ (r[1] - 1) \notin DetectValid
        /\ (r[2] + 1) \notin DetectValid}

\* C21: with a margin of 0, a buffer whose valid windows form one maximal
\* run [s, e] that lasts at least the configured minimum yields exactly the
\* one range (s * 0.1, (e + 1) * 0.1).
C21_SingleRunOneRange ==
    (d_pc = "detected" /\ margin = 0) =>
        \A r \in ValidRuns :
            (ValidRuns = {r} /\ (r[2] + 1) - r[1] >= min_silence_len) =>
                d_out = << <<r[1], r[2] + 1>> >>

\* The range of the run <<s, e>> before the merge, in multiples of 100 ms:
\* padded by the margin, its start clamped at 0 and, for the last run, its
\* end clamped at the end of the buffer (lines 104, 105, 112, 113).
LastRun(r) == \A q \in ValidRuns : q[2] <= r[2]
Candidate(r) ==
    <<Max(0, r[1] - margin),
      IF LastRun(r) /\ (r[2] + 1 + margin) * d_window_size > Len(d_audio)
      THEN DetectWindows
      ELSE r[2] + 1 + margin>>
Length(range) == range[2] - range[1]
KeptCandidates ==
    {Candidate(r) : r \in {q \in ValidRuns :
                              Length(Candidate(q)) >= min_silence_len}}
TooShort(r) == Length(Candidate(r)) < min_silence_len

Inside(a, b) == b[1] <= a[1] /\ a[2] <= b[2]
C23_NoTimeLostOrInvented ==
    m_pc \in {"merged", "remerged"} =>
        /\ \A j \in 1..Len(m_ranges) :
              Cardinality({k \in 1..Len(m_out) :
                              Inside(m_ranges[j], m_out[k])}) = 1
        /\ \A k \in 1..Len(m_out) :
              /\ \E j \in 1..Len(m_ranges) : m_ranges[j][1] = m_out[k][1]
              /\ \E j \in 1..Len(m_ranges) : m_ranges[j][2] = m_out[k][2]
        /\ (m_out = <<>> <=> m_ranges = <<>>)

\* Three ranges, one of them inside a longer one that is listed after it,
\* merged into fewer.
C23_Witness ==
    /\ m_pc = "merged"
    /\ Len(m_ranges) = 3
    /\ Len(m_out) < 3
    /\ \E j, k \in 1..3 :
          /\ k < j
          /\ m_ranges[j][1] < m_ranges[k][1]
          /\ m_ranges[k][2] < m_ranges[j][2]

\* C24: detect_nonsilent returns a list for every buffer, an empty or a
\* shorter than one window one included, and the empty list for a buffer
\* with no valid window.
C24_ListForEveryBuffer ==
    /\ d_pc # "raised"
    /\ (d_pc = "detected" /\ DetectValid = {}) => d_out = <<>>

====
